---- MODULE Spec2Model ----
(***************************************************************************)
(* The telemetry collector of the INAD PROMOTION site: the desktop         *)
(* PerformanceMonitor (utils/performance.js) and the                       *)
(* MobilePerformanceMonitor (utils/mobilePerformance.js), each a           *)
(* module-level singleton wired to the page's exit signals.  One behaviour *)
(* follows one of the two singletons (variant) on one host (caps).         *)
(***************************************************************************)
EXTENDS Integers, Sequences, FiniteSets, TLC

VARIABLES
    variant,             \* "desktop": PerformanceMonitor, "mobile": MobilePerformanceMonitor
    caps,                \* the host hooks that exist (window.PerformanceObserver, ...)
    unsupported,         \* entry types for which PerformanceObserver.observe throws
    isLowEndDevice,      \* this.isLowEndDevice (mobile), what detectLowEndDevice() found
    phase,               \* "load": module body not yet run, "domloading", "ready"
    metrics,             \* this.metrics
    observers,           \* this.observers: ids of the observers the instance holds
    isInitialized,       \* this.isInitialized (desktop)
    cleanupFunctions,    \* this.cleanupFunctions
    memoryCheckInterval, \* this.memoryCheckInterval: an interval id, 0 for null
    intersectionObserver,\* this.intersectionObserver: an observer id, 0 for null
    live,                \* host: the connected PerformanceObservers, by id
    activeIntervals,     \* host: the intervals set and not cleared
    listeners,           \* host: the listeners attached to connection/battery
    performWorkPatched,  \* host: Reconciler.performWork is the wrapper
    batteryPending,      \* getBattery() promises not yet resolved
    pendingAsync,        \* names of measureAsync calls whose promise is pending
    inFlight,            \* deliveries whose fetch is pending (timer pending too)
    staleTimers,         \* 5 s timers pending for a delivery that already settled
    nextId,              \* the next id the host hands out
    now,                 \* Date.now()
    written,             \* per key, the samples recorded into its present array
    clsSeen,             \* sum of the unflagged layout shifts delivered since the last destroy()
    snap,                \* the object a caller holds from its last getMetrics()
    snapAtReturn,        \* the contents of that object when it was returned
    score,               \* what the last getPerformanceScore() returned
    lifecycle,           \* "Uninitialized"; "Running" once init() ran; "Destroyed" once destroy() ran
    recentDestroys,      \* who ran destroy() last, twice at most, with no other handler since
    wallClock,           \* Date.now() in ms, as the contact form and the API service read it
    storage,             \* localStorage: last_form_submission and form_submissions
    form,                \* Contact: what the component's state holds after a submit
    attempts,            \* every submit so far: its time, and whether it got past both rate checks
    boundary,            \* ErrorBoundary: this.state
    page,                \* what the error boundary's handlers did to the page
    api                  \* apiService, its requests and the timers they set

hostVars == <<variant, caps, unsupported, isLowEndDevice>>
\* The collector and its host.
collectorVars ==
    <<variant, caps, unsupported, isLowEndDevice, phase, metrics, observers,
      isInitialized, cleanupFunctions, memoryCheckInterval, intersectionObserver,
      live, activeIntervals, listeners, performWorkPatched, batteryPending,
      pendingAsync, inFlight, staleTimers, nextId, now, written, clsSeen, snap,
      snapAtReturn, score, lifecycle, recentDestroys>>
\* The rest of the site: the contact form, the error boundary, the API service.
siteVars == <<wallClock, storage, form, attempts, boundary, page, api>>
vars == <<collectorVars, siteVars>>

----------------------------------------------------------------------------
(* Bounds of the model. *)

\* Handlers that record a sample in one behaviour of Spec.
MaxClock == 2
\* Ids handed out by the host (observers, intervals, listeners) in Spec.
MaxIds == 16
\* Deliveries whose 5 s timer is still pending, at most.
MaxInFlight == 1
\* getBattery() promises pending at once, at most.
MaxPending == 2
\* Record calls per key in SpecStore: past every series bound.
MaxStoreCalls == 150

\* Submits of the contact form in one behaviour of SpecContact.
MaxAttempts == 6
\* Errors the boundary catches in one behaviour of SpecBoundary.
MaxCaught == 4
\* Exceptions that leave the boundary's event handlers, at most.
MaxHandlerErrors == 3
\* Calls of ApiService.request in one behaviour of SpecApi.
MaxRequests == 3
\* The last millisecond of a behaviour of SpecApi.
MaxApiClock == 70000

(* Program constants. *)
MAX_SAMPLES == 100
MAX_RESOURCES == 50
MOBILE_MAX_SAMPLES == 50

----------------------------------------------------------------------------
(* JavaScript values, as far as the collector tells them apart. *)

Undefined == [t |-> "undef", n |-> 0, s |-> <<>>]
Num(n) == [t |-> "num", n |-> n, s |-> <<>>]
NaN == [t |-> "nan", n |-> 0, s |-> <<>>]
Infinity == [t |-> "inf", n |-> 0, s |-> <<>>]
Obj(n) == [t |-> "obj", n |-> n, s |-> <<>>]
Arr(q) == [t |-> "arr", n |-> 0, s |-> q]

\* !v
Falsy(v) == v.t \in {"undef", "nan"} \/ (v.t = "num" /\ v.n = 0)
\* Number.isFinite(v)
IsFinite(v) == v.t = "num"
\* a + b on numbers
JsAdd(a, b) ==
    IF a.t = "num" /\ b.t = "num" THEN Num(a.n + b.n)
    ELSE IF a.t = "inf" /\ b.t \in {"num", "inf"} THEN Infinity
    ELSE IF b.t = "inf" /\ a.t = "num" THEN Infinity
    ELSE NaN

\* The property names of this.metrics the model follows.
Keys ==
    {"LCP", "FID", "CLS", "lcp", "fid", "cls", "resources",
     "Memory Usage", "High Memory Usage", "memory",
     "Network Change", "network", "Battery Level", "Battery Charging", "battery",
     "Navigation", "navigation", "FP", "fp", "FCP", "fcp", "ReactWork", "task"}

EmptyStore == [k \in Keys |-> Undefined]
NoWrites == [k \in Keys |-> <<>>]

Hooks == {"PerformanceObserver", "memory", "connection", "getBattery",
          "IntersectionObserver", "React"}

LastN(q, n) == IF Len(q) <= n THEN q ELSE SubSeq(q, Len(q) - n + 1, Len(q))

----------------------------------------------------------------------------
(* The mutable state as one record, so that a handler is a function from   *)
(* the state before it to the state after it and handlers compose the way  *)
(* the calls in the source do.  threw: the handler let an exception out;   *)
(* result: what it returned to its caller; logged: the failures it logged  *)
(* with console.warn; rejected: the promise it returned was rejected.      *)

Cur ==
    [metrics |-> metrics, observers |-> observers, isInitialized |-> isInitialized,
     cleanupFunctions |-> cleanupFunctions,
     memoryCheckInterval |-> memoryCheckInterval,
     intersectionObserver |-> intersectionObserver, live |-> live,
     activeIntervals |-> activeIntervals, listeners |-> listeners,
     performWorkPatched |-> performWorkPatched, batteryPending |-> batteryPending,
     pendingAsync |-> pendingAsync, inFlight |-> inFlight,
     staleTimers |-> staleTimers, nextId |-> nextId, now |-> now,
     written |-> written, clsSeen |-> clsSeen, snap |-> snap,
     snapAtReturn |-> snapAtReturn, score |-> score, threw |-> FALSE,
     result |-> "undefined", logged |-> 0, rejected |-> FALSE]

Install(s) ==
    /\ metrics' = s.metrics
    /\ observers' = s.observers
    /\ isInitialized' = s.isInitialized
    /\ cleanupFunctions' = s.cleanupFunctions
    /\ memoryCheckInterval' = s.memoryCheckInterval
    /\ intersectionObserver' = s.intersectionObserver
    /\ live' = s.live
    /\ activeIntervals' = s.activeIntervals
    /\ listeners' = s.listeners
    /\ performWorkPatched' = s.performWorkPatched
    /\ batteryPending' = s.batteryPending
    /\ pendingAsync' = s.pendingAsync
    /\ inFlight' = s.inFlight
    /\ staleTimers' = s.staleTimers
    /\ nextId' = s.nextId
    /\ now' = s.now
    /\ written' = s.written
    /\ clsSeen' = s.clsSeen
    /\ snap' = s.snap
    /\ snapAtReturn' = s.snapAtReturn
    /\ score' = s.score

----------------------------------------------------------------------------
(* The object a caller got from getMetrics().  whole: it is this.metrics   *)
(* itself; alias: the keys whose array or object it shares with the store; *)
(* val: its own value for every other key.                                 *)

NoSnap == [taken |-> FALSE, whole |-> FALSE, alias |-> {}, val |-> EmptyStore]

\* What the caller reads in the object it holds.
SnapView(sn, m) ==
    [k \in Keys |-> IF sn.whole \/ k \in sn.alias THEN m[k] ELSE sn.val[k]]

\* this.metrics[key] = v: the property is bound to another value; an object a
\* caller copied the old array out of keeps the old array.
Assign(s, key, v) ==
    [s EXCEPT
       !.metrics[key] = v,
       !.written[key] = <<>>,
       !.snap = IF s.snap.taken /\ ~s.snap.whole /\ key \in s.snap.alias
                THEN [s.snap EXCEPT !.alias = @ \ {key},
                                    !.val[key] = s.metrics[key]]
                ELSE s.snap]

\* this.metrics = {}: a caller that holds the old object keeps it as it was.
ClearStore(s) ==
    [s EXCEPT
       !.metrics = EmptyStore,
       !.written = NoWrites,
       !.snap = IF s.snap.taken
                THEN [taken |-> TRUE, whole |-> FALSE, alias |-> {},
                      val |-> SnapView(s.snap, s.metrics)]
                ELSE s.snap]

\* A push that evicts one sample too late: if (a.length > bound) a.shift().
PushBoundedLate(s, key, sample, bound) ==
    LET q == s.metrics[key].s
        kept == IF Len(q) > bound THEN Tail(q) ELSE q
    IN  [s EXCEPT !.metrics[key] = Arr(Append(kept, sample)),
                  !.written[key] = Append(@, sample)]

\* if (a.length >= bound) a.shift(); a.push(sample), on the array at key.
PushBounded(s, key, sample, bound) ==
    LET q == s.metrics[key].s
        kept == IF Len(q) >= bound THEN Tail(q) ELSE q
    IN  [s EXCEPT !.metrics[key] = Arr(Append(kept, sample)),
                  !.written[key] = Append(@, sample)]

Sample(value, time) == [value |-> value, timestamp |-> time]

----------------------------------------------------------------------------
(* Recording and reporting. *)

\* PerformanceMonitor.sendToAnalytics up to its await: the 5 s timer is set and
\* the POST is started.  What follows the await is FetchResolve, FetchReject
\* and TimeoutFires below.
sendToAnalytics(s) == [s EXCEPT !.inFlight = @ + 1]

\* sendToAnalytics after its await, the POST answered with any status:
\* clearTimeout(timeoutId).  response.ok is not looked at.
sendToAnalyticsResolved(s, status) == [s EXCEPT !.inFlight = @ - 1]

\* A catch block that logs and throws the error again.
sendToAnalyticsRethrowing(s, errorName) ==
    [s EXCEPT !.inFlight = @ - 1, !.logged = @ + 1, !.rejected = TRUE]

\* A catch block that logs, then posts the data once more.
sendToAnalyticsRetrying(s, errorName) ==
    [s EXCEPT !.logged = @ + 1]

\* sendToAnalytics after its await, the POST rejected: the catch block logs
\* unless the error is the AbortError of its own timer, and returns.  After
\* another error the timer is still pending.
sendToAnalyticsRejected(s, errorName) ==
    IF errorName = "AbortError"
    THEN [s EXCEPT !.inFlight = @ - 1]
    ELSE [s EXCEPT !.inFlight = @ - 1, !.staleTimers = @ + 1,
                   !.logged = @ + 1]

\* PerformanceMonitor.reportMetric.  On a property that holds a number or an
\* object, .push is a TypeError, which the try block swallows before the
\* delivery is started.
reportMetric(s, name, value) ==
    LET s1 == IF Falsy(s.metrics[name]) THEN Assign(s, name, Arr(<<>>)) ELSE s
    IN  IF s1.metrics[name].t = "arr"
        THEN sendToAnalytics(PushBounded(s1, name, Sample(value, s.now), MAX_SAMPLES))
        ELSE s1

\* MobilePerformanceMonitor.logMetric: no try block, the TypeError reaches the
\* caller.  sendToAnalytics (production only) is a synchronous gtag call and
\* checkPerformanceWarnings builds a list it returns to nobody: neither
\* changes the collector.
logMetric(s, name, value) ==
    LET s1 == IF Falsy(s.metrics[name]) THEN Assign(s, name, Arr(<<>>)) ELSE s
    IN  IF s1.metrics[name].t = "arr"
        THEN PushBounded(s1, name, Sample(value, s.now), MOBILE_MAX_SAMPLES)
        ELSE [s1 EXCEPT !.threw = TRUE]

\* The record call of the variant at hand.
Record(s, name, value) ==
    IF variant = "desktop" THEN reportMetric(s, name, value)
    ELSE logMetric(s, name, value)

----------------------------------------------------------------------------
(* Observation sources. *)

\* new PerformanceObserver(cb).observe({entryTypes: [type]});
\* this.observers.push(observer)
NewObserver(s, type) ==
    [s EXCEPT !.live = @ @@ (s.nextId :> [type |-> type, clsValue |-> Num(0)]),
              !.observers = Append(@, s.nextId),
              !.nextId = @ + 1]

\* try { ...observe...; push } catch { warn }
TryObserve(s, type) == IF type \in unsupported THEN s ELSE NewObserver(s, type)

\* PerformanceMonitor.setupWebVitals
setupWebVitals(s) ==
    IF "PerformanceObserver" \in caps
    THEN TryObserve(TryObserve(TryObserve(s, "largest-contentful-paint"),
                               "first-input"), "layout-shift")
    ELSE s

\* PerformanceMonitor.setupPerformanceObserver: one try block around both
\* observers.
setupPerformanceObserver(s) ==
    IF "PerformanceObserver" \in caps /\ "navigation" \notin unsupported
    THEN TryObserve(NewObserver(s, "navigation"), "paint")
    ELSE s

\* PerformanceMonitor.setupResourceTiming
setupResourceTiming(s) ==
    IF "PerformanceObserver" \in caps THEN TryObserve(s, "resource") ELSE s

\* PerformanceMonitor.setupUserTiming and monitorReactPerformance
setupUserTiming(s) ==
    IF "React" \in caps
    THEN [s EXCEPT !.performWorkPatched = TRUE,
                   !.cleanupFunctions = Append(@, [kind |-> "react", id |-> 0])]
    ELSE s

\* A memory poll that is set up without asking whether the host has
\* performance.memory.
setupMemoryMonitoringUnguarded(s) ==
    [s EXCEPT !.activeIntervals = @ \cup {s.nextId},
              !.memoryCheckInterval = s.nextId,
              !.nextId = @ + 1]

\* PerformanceMonitor.setupMemoryMonitoring and
\* MobilePerformanceMonitor.setupMemoryObserver: the handle of the new
\* interval replaces the one the field held.
setupMemoryMonitoring(s) ==
    IF "memory" \in caps
    THEN [s EXCEPT !.activeIntervals = @ \cup {s.nextId},
                   !.memoryCheckInterval = s.nextId,
                   !.nextId = @ + 1]
    ELSE s

\* MobilePerformanceMonitor.setupPerformanceObserver
MobileSetupPerformanceObserver(s) ==
    IF "PerformanceObserver" \in caps
    THEN TryObserve(TryObserve(TryObserve(s, "largest-contentful-paint"),
                               "first-input"), "layout-shift")
    ELSE s

\* MobilePerformanceMonitor.setupNetworkObserver
setupNetworkObserver(s) ==
    IF "connection" \in caps
    THEN LET s1 == Assign(s, "network", Obj(0))
         IN  [s1 EXCEPT
                !.listeners = @ \cup {[target |-> "connection", id |-> s.nextId]},
                !.cleanupFunctions =
                    Append(@, [kind |-> "connection", id |-> s.nextId]),
                !.nextId = @ + 1]
    ELSE s

\* MobilePerformanceMonitor.setupBatteryObserver, up to the promise.
setupBatteryObserver(s) ==
    IF "getBattery" \in caps THEN [s EXCEPT !.batteryPending = @ + 1] ELSE s

\* MobilePerformanceMonitor.setupIntersectionObserver: the observer is
\* created and observes no element.
setupIntersectionObserver(s) ==
    IF "IntersectionObserver" \in caps
    THEN [s EXCEPT !.intersectionObserver = s.nextId, !.nextId = @ + 1]
    ELSE s

----------------------------------------------------------------------------
(* Lifecycle. *)

\* PerformanceMonitor.init
PMInit(s) ==
    IF s.isInitialized THEN s
    ELSE [setupMemoryMonitoring(setupUserTiming(setupResourceTiming(
              setupPerformanceObserver(setupWebVitals(s)))))
          EXCEPT !.isInitialized = TRUE]

\* MobilePerformanceMonitor.init
MobileInit(s) ==
    setupIntersectionObserver(setupMemoryMonitoring(setupBatteryObserver(
        setupNetworkObserver(MobileSetupPerformanceObserver(s)))))

\* observer.disconnect() for every observer of this.observers
DisconnectAll(s) ==
    [s EXCEPT !.live = [i \in DOMAIN s.live \ {s.observers[j] : j \in DOMAIN s.observers}
                          |-> s.live[i]]]

\* clearInterval(this.memoryCheckInterval); this.memoryCheckInterval = null
ClearIntervals(s) ==
    IF s.memoryCheckInterval # 0
    THEN [s EXCEPT !.activeIntervals = @ \ {s.memoryCheckInterval},
                   !.memoryCheckInterval = 0]
    ELSE s

\* One cleanup closure: restore performWork, or remove the listeners it added.
RunCleanup(s, fn) ==
    IF fn.kind = "react" THEN [s EXCEPT !.performWorkPatched = FALSE]
    ELSE [s EXCEPT !.listeners = {l \in @ : l.id # fn.id}]

RECURSIVE RunCleanups(_, _)
RunCleanups(s, fns) ==
    IF fns = <<>> THEN s ELSE RunCleanups(RunCleanup(s, Head(fns)), Tail(fns))

\* A destroy that forgets the store: this.observers = [];
\* this.cleanupFunctions = [] and no this.metrics = {}.
ClearStoredDataKeepingStore(s) ==
    [s EXCEPT !.observers = <<>>, !.cleanupFunctions = <<>>]

\* this.observers = []; this.cleanupFunctions = []; this.metrics = {}
ClearStoredData(s) ==
    [ClearStore(s) EXCEPT !.observers = <<>>, !.cleanupFunctions = <<>>,
                          !.clsSeen = 0]

\* PerformanceMonitor.destroy
PMDestroy(s) ==
    [ClearStoredData(RunCleanups(ClearIntervals(DisconnectAll(s)),
                                 s.cleanupFunctions))
     EXCEPT !.isInitialized = FALSE]

\* MobilePerformanceMonitor.destroy.  The intersection observer observes
\* nothing, so its disconnect changes nothing, and the field keeps it.
MobileDestroy(s) ==
    ClearStoredData(RunCleanups(ClearIntervals(DisconnectAll(s)),
                                s.cleanupFunctions))

init(s) == IF variant = "desktop" THEN PMInit(s) ELSE MobileInit(s)
destroy(s) == IF variant = "desktop" THEN PMDestroy(s) ELSE MobileDestroy(s)

\* What destroy() stops one by one: the observers it holds and the cleanup
\* closures it holds, by id.
StoppedBy(s) ==
    {s.observers[j] : j \in DOMAIN s.observers}
    \cup {s.cleanupFunctions[j].id : j \in DOMAIN s.cleanupFunctions}

\* A loop inside one try block: the first disconnect() that throws ends it.
DisconnectUntilFailure(s, failing) ==
    LET bad == {j \in DOMAIN s.observers : s.observers[j] \in failing}
        last == IF bad = {} THEN Len(s.observers)
                ELSE (CHOOSE j \in bad : \A k \in bad : j <= k) - 1
    IN  [s EXCEPT !.live = [i \in DOMAIN s.live \ {s.observers[j] : j \in 1..last}
                              |-> s.live[i]],
                  !.logged = @ + (IF bad = {} THEN 0 ELSE 1)]

\* this.observers.forEach(observer => { try { observer.disconnect() } catch
\* { warn } }) where disconnect() throws for the observers in failing: such
\* an observer stays connected, the loop goes on.
DisconnectAllBut(s, failing) ==
    [s EXCEPT !.live = [i \in DOMAIN s.live
                            \ ({s.observers[j] : j \in DOMAIN s.observers} \ failing)
                          |-> s.live[i]],
              !.logged = @ + Cardinality({j \in DOMAIN s.observers :
                                             s.observers[j] \in failing})]

\* this.cleanupFunctions.forEach(fn => { try { fn() } catch { warn } }) where
\* the closures in failing throw before they remove anything.
RECURSIVE RunCleanupsBut(_, _, _)
RunCleanupsBut(s, fns, failing) ==
    IF fns = <<>> THEN s
    ELSE RunCleanupsBut(IF Head(fns).id \in failing
                        THEN [s EXCEPT !.logged = @ + 1]
                        ELSE RunCleanup(s, Head(fns)),
                        Tail(fns), failing)

\* destroy() of the variant at hand on a host where stopping the observers
\* and closures in failing throws.
destroyOn(s, failing) ==
    LET d == ClearStoredData(RunCleanupsBut(
                 ClearIntervals(DisconnectAllBut(s, failing)),
                 s.cleanupFunctions, failing))
    IN  IF variant = "desktop" THEN [d EXCEPT !.isInitialized = FALSE] ELSE d

----------------------------------------------------------------------------
(* Observer callbacks.  id is the observer whose callback runs. *)

\* lcpObserver callback (both variants): the last entry's startTime.
OnLCP(s, id, v) == Record(Assign(s, "lcp", v), "LCP", v)

\* fidObserver callback (both variants), for one first-input entry with
\* d = processingStart - startTime.
OnFID(s, id, d) == Record(Assign(s, "fid", d), "FID", d)

\* The running total of observer id after the entry.
Accumulate(s, id, entry) ==
    IF entry.hadRecentInput THEN s
    ELSE [s EXCEPT !.live[id].clsValue = JsAdd(@, Num(entry.value))]

\* PerformanceMonitor clsObserver callback: an unflagged entry is added,
\* stored and reported; a flagged one is skipped.
RECURSIVE PMOnShift(_, _, _)
PMOnShift(s, id, entries) ==
    IF entries = <<>> THEN s
    ELSE LET e == Head(entries)
             s1 == Accumulate(s, id, e)
             s2 == IF e.hadRecentInput THEN s
                   ELSE reportMetric(Assign(s1, "cls", s1.live[id].clsValue),
                                     "CLS", s1.live[id].clsValue)
         IN  PMOnShift(s2, id, Tail(entries))

RECURSIVE AccumulateAll(_, _, _)
AccumulateAll(s, id, entries) ==
    IF entries = <<>> THEN s
    ELSE AccumulateAll(Accumulate(s, id, Head(entries)), id, Tail(entries))

\* MobilePerformanceMonitor clsObserver callback: the total is stored and
\* logged once per notification, after the loop.
MobileOnShift(s, id, entries) ==
    LET s1 == AccumulateAll(s, id, entries)
    IN  logMetric(Assign(s1, "cls", s1.live[id].clsValue), "CLS",
                  s1.live[id].clsValue)

OnShift(s, id, entries) ==
    IF variant = "desktop" THEN PMOnShift(s, id, entries)
    ELSE MobileOnShift(s, id, entries)

\* navigationObserver callback, one navigation entry.
OnNavigation(s, id, v) ==
    reportMetric(Assign(s, "navigation", Obj(v)), "Navigation", Obj(v))

\* paintObserver callback, one entry named name.
OnPaint(s, id, name, v) ==
    IF name = "first-paint" THEN reportMetric(Assign(s, "fp", v), "FP", v)
    ELSE IF name = "first-contentful-paint"
    THEN reportMetric(Assign(s, "fcp", v), "FCP", v)
    ELSE s

\* resourceObserver callback, one entry.  The stored record is
\* {name, type, duration, size}; the model keeps its duration and, to tell
\* two records apart, the time of the call.
OnResource(s, id, initiatorType, duration) ==
    IF initiatorType \in {"img", "video"}
    THEN LET s1 == IF Falsy(s.metrics["resources"])
                   THEN Assign(s, "resources", Arr(<<>>)) ELSE s
         IN  IF s1.metrics["resources"].t = "arr"
             THEN PushBounded(s1, "resources", Sample(duration, s.now),
                              MAX_RESOURCES)
             ELSE [s1 EXCEPT !.threw = TRUE]
    ELSE s

\* The callback of observer id for a notification of its type.
Callback(s, id, type, payload) ==
    CASE type = "largest-contentful-paint" -> OnLCP(s, id, payload)
      [] type = "first-input" -> OnFID(s, id, payload)
      [] type = "layout-shift" -> OnShift(s, id, payload)
      [] type = "navigation" -> OnNavigation(s, id, payload)
      [] type = "paint" -> OnPaint(s, id, payload.name, payload.startTime)
      [] type = "resource" -> OnResource(s, id, payload.initiatorType,
                                         payload.duration)

Min(S) == CHOOSE x \in S : \A y \in S : x <= y

\* The host runs the callbacks of the connected observers of the type, in the
\* order the observers were created.
RECURSIVE Notify(_, _, _, _)
Notify(s, ids, type, payload) ==
    IF ids = {} THEN s
    ELSE LET id == Min(ids)
         IN  Notify(Callback(s, id, type, payload), ids \ {id}, type, payload)

Observing(s, type) == {i \in DOMAIN s.live : s.live[i].type = type}

RECURSIVE UnflaggedSum(_)
UnflaggedSum(entries) ==
    IF entries = <<>> THEN 0
    ELSE (IF Head(entries).hadRecentInput THEN 0 ELSE Head(entries).value)
         + UnflaggedSum(Tail(entries))

----------------------------------------------------------------------------
(* Timer and listener callbacks. *)

\* The setInterval callback of setupMemoryMonitoring (desktop) and of
\* setupMemoryObserver (mobile); usage is the heap usage ratio in percent.
OnMemoryTick(s, usage) ==
    IF usage > 70
    THEN LET s1 == Assign(s, "memory", Obj(usage))
         IN  IF variant = "desktop"
             THEN reportMetric(s1, "Memory Usage", Num(usage))
             ELSE IF usage > 80
             THEN logMetric(s1, "High Memory Usage", Num(usage))
             ELSE s1
    ELSE s

\* handleNetworkChange
OnNetworkChange(s, v) ==
    logMetric(Assign(s, "network", Obj(v)), "Network Change", Obj(v))

\* The continuation of navigator.getBattery().then(...)
OnBatteryResolved(s, level) ==
    LET s1 == Assign(s, "battery", Obj(level))
    IN  [s1 EXCEPT
           !.listeners = @ \cup {[target |-> "battery", id |-> s.nextId]},
           !.cleanupFunctions = Append(@, [kind |-> "battery", id |-> s.nextId]),
           !.nextId = @ + 1,
           !.batteryPending = @ - 1]

\* handleBatteryLevelChange / handleBatteryChargingChange: the battery object
\* of the store is changed in place.
OnBatteryChange(s, name, v) ==
    IF s.metrics["battery"].t = "obj"
    THEN logMetric([s EXCEPT !.metrics["battery"] = Obj(v)], name, Num(v))
    ELSE [s EXCEPT !.threw = TRUE]

RECURSIVE Repeat(_, _, _, _)
\* The same listener body, once per attached listener.
Repeat(s, n, name, v) ==
    IF n = 0 THEN s
    ELSE Repeat(IF name = "Network Change" THEN OnNetworkChange(s, v)
                ELSE OnBatteryChange(s, name, v), n - 1, name, v)

\* The wrapper around Reconciler.performWork, for a call that took duration ms.
OnPerformWork(s, duration) ==
    IF duration > 16 THEN reportMetric(s, "ReactWork", Num(duration)) ELSE s

----------------------------------------------------------------------------
(* The public API. *)

\* A measure that returns what it measured.
measureReturningDuration(s, name, duration, result) ==
    [reportMetric(Assign(s, name, Num(duration)), name, Num(duration))
     EXCEPT !.result = "duration"]

\* PerformanceMonitor.measure, fn returning result after duration ms.
measure(s, name, duration, result) ==
    [reportMetric(Assign(s, name, Num(duration)), name, Num(duration))
     EXCEPT !.result = result]

\* PerformanceMonitor.measureAsync after its await, fn's promise resolved
\* to result after duration ms.
measureAsync(s, name, duration, result) ==
    measure([s EXCEPT !.pendingAsync = @ \ {name}], name, duration, result)

\* PerformanceMonitor.getMetrics: { ...this.metrics }, a new object whose
\* properties hold the same arrays and objects.
\* MobilePerformanceMonitor.getMetrics: this.metrics itself.
getMetrics(s) ==
    [s EXCEPT
       !.snap =
           IF variant = "desktop"
           THEN [taken |-> TRUE, whole |-> FALSE,
                 alias |-> {k \in Keys : s.metrics[k].t \in {"arr", "obj"}},
                 val |-> [k \in Keys |->
                            IF s.metrics[k].t \in {"arr", "obj"} THEN Undefined
                            ELSE s.metrics[k]]]
           ELSE [taken |-> TRUE, whole |-> TRUE, alias |-> {}, val |-> EmptyStore],
       !.snapAtReturn = s.metrics]

\* The caller pushes x onto the array it reads at key in the object it holds.
CallerPush(s, key, x) ==
    LET q == SnapView(s.snap, s.metrics)[key].s
    IN  [s EXCEPT
           !.metrics[key] = IF s.snap.whole \/ key \in s.snap.alias
                            THEN Arr(Append(q, x)) ELSE @,
           !.snap.val[key] = IF s.snap.whole \/ key \in s.snap.alias
                             THEN @ ELSE Arr(Append(q, x)),
           !.snapAtReturn[key] = Arr(Append(@.s, x))]

----------------------------------------------------------------------------
(* The scorer of the mobile collector.  Layout shift is in hundredths.    *)

LCP_GOOD == 2500
LCP_FAIR == 4000
LCP_POOR == 6000
FID_GOOD == 100
FID_FAIR == 300
FID_POOR == 500
CLS_GOOD == 10
CLS_FAIR == 25
CLS_POOR == 50

LCP_HINT == "Optimize images and reduce render-blocking resources"
FID_HINT == "Reduce JavaScript execution time and break up long tasks"
CLS_HINT == "Fix layout shifts by reserving space for dynamic content"
DEVICE_HINT == "Consider implementing progressive enhancement for low-end devices"

NoScore ==
    [taken |-> FALSE, overall |-> 0, lcp |-> 0, fid |-> 0, cls |-> 0,
     isLowEndDevice |-> FALSE, recommendations |-> <<>>]

\* v || 0
OrZero(v) == IF Falsy(v) THEN Num(0) ELSE v
\* v <= b for a number b: false for NaN, for +Infinity, and for an object
\* or a non-empty array of objects, which convert to NaN.
LessOrEqual(v, b) == v.t = "num" /\ v.n <= b

\* An LCP score whose breakpoints exclude their own value: lcp < 2500, ...
getLCPScoreBelow(s) ==
    LET lcp == OrZero(s.metrics["lcp"])
    IN  IF LessOrEqual(lcp, LCP_GOOD - 1) THEN 100
        ELSE IF LessOrEqual(lcp, LCP_FAIR - 1) THEN 75
        ELSE IF LessOrEqual(lcp, LCP_POOR - 1) THEN 50
        ELSE 25

\* MobilePerformanceMonitor.getLCPScore
getLCPScore(s) ==
    LET lcp == OrZero(s.metrics["lcp"])
    IN  IF LessOrEqual(lcp, LCP_GOOD) THEN 100
        ELSE IF LessOrEqual(lcp, LCP_FAIR) THEN 75
        ELSE IF LessOrEqual(lcp, LCP_POOR) THEN 50
        ELSE 25

\* MobilePerformanceMonitor.getFIDScore
getFIDScore(s) ==
    LET fid == OrZero(s.metrics["fid"])
    IN  IF LessOrEqual(fid, FID_GOOD) THEN 100
        ELSE IF LessOrEqual(fid, FID_FAIR) THEN 75
        ELSE IF LessOrEqual(fid, FID_POOR) THEN 50
        ELSE 25

\* MobilePerformanceMonitor.getCLSScore
getCLSScore(s) ==
    LET cls == OrZero(s.metrics["cls"])
    IN  IF LessOrEqual(cls, CLS_GOOD) THEN 100
        ELSE IF LessOrEqual(cls, CLS_FAIR) THEN 75
        ELSE IF LessOrEqual(cls, CLS_POOR) THEN 50
        ELSE 25

\* Math.round(a / b) for a >= 0 and b > 0: halves go up.
RoundDiv(a, b) == (2 * a + b) \div (2 * b)

\* Recommendations that take a score of 75 for a poor one: scores.x <= 75.
getRecommendationsAtMost(scores, lowEnd) ==
    (IF scores.lcp <= 75 THEN <<LCP_HINT>> ELSE <<>>)
    \o (IF scores.fid <= 75 THEN <<FID_HINT>> ELSE <<>>)
    \o (IF scores.cls <= 75 THEN <<CLS_HINT>> ELSE <<>>)
    \o (IF lowEnd THEN <<DEVICE_HINT>> ELSE <<>>)

\* MobilePerformanceMonitor.getRecommendations
getRecommendations(scores, lowEnd) ==
    (IF scores.lcp < 75 THEN <<LCP_HINT>> ELSE <<>>)
    \o (IF scores.fid < 75 THEN <<FID_HINT>> ELSE <<>>)
    \o (IF scores.cls < 75 THEN <<CLS_HINT>> ELSE <<>>)
    \o (IF lowEnd THEN <<DEVICE_HINT>> ELSE <<>>)

\* The object getPerformanceScore returns.
ScoreOutput(s) ==
    LET scores == [lcp |-> getLCPScore(s), fid |-> getFIDScore(s),
                   cls |-> getCLSScore(s)]
    IN  [taken |-> TRUE,
         overall |-> RoundDiv(scores.lcp + scores.fid + scores.cls, 3),
         lcp |-> scores.lcp, fid |-> scores.fid, cls |-> scores.cls,
         isLowEndDevice |-> isLowEndDevice,
         recommendations |-> getRecommendations(scores, isLowEndDevice)]

\* A scorer that logs the overall score it computed as a sample.
getPerformanceScoreLogging(s) ==
    [logMetric(s, "task", Num(ScoreOutput(s).overall))
     EXCEPT !.score = ScoreOutput(s)]

\* MobilePerformanceMonitor.getPerformanceScore: the state after the call,
\* score being what it returned.
getPerformanceScore(s) == [s EXCEPT !.score = ScoreOutput(s)]

----------------------------------------------------------------------------
(* Inputs. *)

\* largest-contentful-paint start times, ms.
LcpTimes == {Num(3000)}
\* processingStart - startTime of a first-input entry; NaN when the entry
\* lacks processingStart.
FidDelays == {Num(50), NaN}
\* layout-shift entries, value in hundredths.
Unflagged == [value |-> 1, hadRecentInput |-> FALSE]
Flagged == [value |-> 2, hadRecentInput |-> TRUE]
\* The entry lists of one notification.
ShiftLists == {<<Unflagged>>, <<Flagged>>, <<Unflagged, Flagged>>, <<Flagged, Unflagged>>}
PaintEntries ==
    {[name |-> "first-paint", startTime |-> Num(100)],
     [name |-> "first-contentful-paint", startTime |-> Num(200)]}
ResourceEntries ==
    {[initiatorType |-> "img", duration |-> Num(10)],
     [initiatorType |-> "script", duration |-> Num(10)]}
\* usedJSHeapSize / jsHeapSizeLimit, percent.
MemoryUsages == {50, 75, 95}
\* The names and values callers pass to reportMetric / logMetric / measure.
PublicNames == {"task", "lcp"}
PublicValues == {Num(5), NaN}
Durations == {0, 5}
\* The names callers pass to measureAsync.
AsyncNames == {"task"}
\* What the measured functions return.
FnResults == {"a", "b"}
\* What the analytics endpoint answers, and what a failed POST rejects with.
Statuses == {200, 500}
\* What the scorer is followed on: values at and next to every breakpoint.
ScoredLcp == {Num(2500), Num(2501), Num(4000), Num(4001), Num(6000), Num(6001),
              Num(7000)}
ScoredFid == {Num(100), Num(101), Num(300), Num(301), Num(500), Num(501), NaN}
ScoredShifts == {10, 11, 25, 26, 50, 51}

----------------------------------------------------------------------------
(* Actions. *)

\* The bounds of the model, on the state an action leads to.
Within(s) ==
    /\ s.now <= MaxClock
    /\ s.nextId <= MaxIds
    /\ s.inFlight + s.staleTimers <= MaxInFlight
    /\ s.batteryPending <= MaxPending

\* Date.now() moves on once a handler has stamped a sample with it.
Tock(s) ==
    IF \E k \in Keys : /\ s.written[k] # <<>>
                       /\ s.written[k][Len(s.written[k])].timestamp = s.now
    THEN [s EXCEPT !.now = @ + 1] ELSE s

\* A handler other than destroy() ran and left state s.
Step(s, life) ==
    /\ Within(Tock(s))
    /\ Install(Tock(s))
    /\ lifecycle' = life
    /\ recentDestroys' = <<>>
    /\ UNCHANGED <<hostVars, siteVars>>

\* destroy() ran, called by who, and left state s.
DestroyStep(who, s) ==
    /\ Install(s)
    /\ lifecycle' = "Destroyed"
    /\ recentDestroys' = LastN(Append(recentDestroys, who), 2)
    /\ UNCHANGED <<hostVars, siteVars>>

AfterInit == IF lifecycle = "Uninitialized" THEN "Running" ELSE lifecycle

\* The module body: the singleton is constructed; the mobile constructor
\* calls init(); the desktop module calls init() now or on DOMContentLoaded.
ModuleLoad ==
    /\ phase = "load"
    /\ \/ /\ variant = "mobile"
          /\ phase' = "ready"
          /\ Step(init(Cur), "Running")
       \/ /\ variant = "desktop"
          /\ phase' = "ready"
          /\ Step(init(Cur), "Running")
       \/ /\ variant = "desktop"
          /\ phase' = "domloading"
          /\ Step(Cur, lifecycle)

DOMContentLoaded ==
    /\ phase = "domloading"
    /\ phase' = "ready"
    /\ Step(init(Cur), AfterInit)

Loaded == phase # "load"

\* The application calls init().
CallInit ==
    /\ Loaded
    /\ Step(init(Cur), AfterInit)
    /\ UNCHANGED phase

\* The application calls destroy() (or cleanup()).
CallDestroy ==
    /\ Loaded
    /\ DestroyStep("app", destroy(Cur))
    /\ UNCHANGED phase

\* window 'beforeunload' listener
BeforeUnload ==
    /\ Loaded
    /\ DestroyStep("beforeunload", destroy(Cur))
    /\ UNCHANGED phase

\* window 'pagehide' listener
PageHide ==
    /\ Loaded
    /\ DestroyStep("pagehide", destroy(Cur))
    /\ UNCHANGED phase

NotifyOf(type, payload) ==
    /\ Observing(Cur, type) # {}
    /\ Step(Notify(Cur, Observing(Cur, type), type, payload), lifecycle)
    /\ UNCHANGED phase

LargestContentfulPaint == \E v \in LcpTimes : NotifyOf("largest-contentful-paint", v)

FirstInput == \E d \in FidDelays : NotifyOf("first-input", d)

LayoutShift ==
    \E entries \in ShiftLists :
        /\ Observing(Cur, "layout-shift") # {}
        /\ Step([Notify(Cur, Observing(Cur, "layout-shift"), "layout-shift", entries)
                 EXCEPT !.clsSeen = @ + UnflaggedSum(entries)],
                lifecycle)
        /\ UNCHANGED phase

Navigation == NotifyOf("navigation", 1)

Paint == \E e \in PaintEntries : NotifyOf("paint", e)

ResourceLoad == \E e \in ResourceEntries : NotifyOf("resource", e)

\* One of the intervals that were set and not cleared fires.
MemoryTick ==
    \E id \in activeIntervals, usage \in MemoryUsages :
        /\ Step(OnMemoryTick(Cur, usage), lifecycle)
        /\ UNCHANGED phase

ListenersOn(target) == {l \in listeners : l.target = target}

NetworkChange ==
    /\ ListenersOn("connection") # {}
    /\ Step(Repeat(Cur, Cardinality(ListenersOn("connection")), "Network Change", 1),
            lifecycle)
    /\ UNCHANGED phase

BatteryResolved ==
    /\ batteryPending > 0
    /\ Step(OnBatteryResolved(Cur, 1), lifecycle)
    /\ UNCHANGED phase

BatteryChange ==
    \E name \in {"Battery Level", "Battery Charging"} :
        /\ ListenersOn("battery") # {}
        /\ Step(Repeat(Cur, Cardinality(ListenersOn("battery")), name, 0),
                lifecycle)
        /\ UNCHANGED phase

PerformWork ==
    /\ performWorkPatched
    /\ Step(OnPerformWork(Cur, 20), lifecycle)
    /\ UNCHANGED phase

\* A caller calls reportMetric (desktop) or logMetric (mobile).
CallRecord ==
    \E name \in PublicNames, value \in PublicValues :
        /\ Loaded
        /\ Step(Record(Cur, name, value), lifecycle)
        /\ UNCHANGED phase

\* A caller calls measure(name, fn); fn returns after some ms, or throws.
CallMeasure ==
    /\ Loaded
    /\ variant = "desktop"
    /\ \/ \E name \in PublicNames, d \in Durations, r \in FnResults :
             Step(measure(Cur, name, d, r), lifecycle)
       \/ Step([Cur EXCEPT !.threw = TRUE], lifecycle)
    /\ UNCHANGED phase

\* measureAsync(name, fn) up to its await.
MeasureAsyncStart ==
    \E name \in AsyncNames :
        /\ Loaded
        /\ variant = "desktop"
        /\ name \notin pendingAsync
        /\ Step([Cur EXCEPT !.pendingAsync = @ \cup {name}],
                lifecycle)
        /\ UNCHANGED phase

\* fn's promise settles: measureAsync goes on after its await, or rejects.
MeasureAsyncSettle ==
    \E name \in pendingAsync :
        /\ \/ \E d \in Durations, r \in FnResults :
                 Step(measureAsync(Cur, name, d, r), lifecycle)
           \/ Step([Cur EXCEPT !.pendingAsync = @ \ {name}, !.threw = TRUE],
                   lifecycle)
        /\ UNCHANGED phase

CallGetMetrics ==
    /\ Loaded
    /\ Step(getMetrics(Cur), lifecycle)
    /\ UNCHANGED phase

\* The caller changes the object it got from getMetrics().
CallerMutates ==
    \E key \in Keys :
        /\ snap.taken
        /\ SnapView(snap, metrics)[key].t = "arr"
        /\ snapAtReturn[key].t = "arr"
        /\ Len(SnapView(snap, metrics)[key].s) < MaxClock
        /\ Step(CallerPush(Cur, key, Sample(Num(9), 0)), lifecycle)
        /\ UNCHANGED phase

\* The POST settles with a response (of any status): clearTimeout.
FetchResolve ==
    /\ inFlight > 0
    /\ \E status \in Statuses : Step(sendToAnalyticsResolved(Cur, status), lifecycle)
    /\ UNCHANGED phase

\* The POST fails: the catch block logs; the timer is left to fire.
FetchReject ==
    /\ inFlight > 0
    /\ Step(sendToAnalyticsRejected(Cur, "TypeError"), lifecycle)
    /\ UNCHANGED phase

\* A 5 s timer fires: controller.abort(), which rejects a pending POST with
\* an AbortError and does nothing to a settled one.
TimeoutFires ==
    /\ \/ /\ inFlight > 0
          /\ Step(sendToAnalyticsRejected(Cur, "AbortError"), lifecycle)
       \/ /\ staleTimers > 0
          /\ Step([Cur EXCEPT !.staleTimers = @ - 1], lifecycle)
    /\ UNCHANGED phase

\* A caller asks the mobile collector for its score.
CallGetPerformanceScore ==
    /\ Loaded
    /\ variant = "mobile"
    /\ Install(getPerformanceScore(Cur))
    /\ recentDestroys' = <<>>
    /\ UNCHANGED <<hostVars, siteVars, phase, lifecycle>>

----------------------------------------------------------------------------
(* The contact form: utils/security.js and Contact.handleSubmit. *)

MIN_INTERVAL == 30000
ONE_HOUR == 60 * 60 * 1000
MAX_PER_HOUR == 5

WAIT_MESSAGE == "Please wait 30 seconds before submitting another message."
TOO_MANY_MESSAGE == "Too many submissions. Please try again later."
HONEYPOT_MESSAGE == "Invalid submission detected."
FAILED_MESSAGE == "Something went wrong. Please try again later."

\* n.toString() for an integer n >= 0: its decimal digits.
RECURSIVE toString(_)
toString(n) == IF n < 10 THEN <<n>> ELSE Append(toString(n \div 10), n % 10)

\* parseInt(text) for a text of decimal digits.
RECURSIVE parseInt(_)
parseInt(text) ==
    IF Len(text) = 1 THEN text[1]
    ELSE 10 * parseInt(SubSeq(text, 1, Len(text) - 1)) + text[Len(text)]

\* JSON.stringify / JSON.parse of an array of integers: the texts of its
\* elements, in order.
JSONStringify(q) == [i \in DOMAIN q |-> toString(q[i])]
JSONParse(text) == [i \in DOMAIN text |-> parseInt(text[i])]

\* localStorage.getItem(key) || fallback and localStorage.setItem(key, text);
\* a key that was never set is not in the domain.
GetItem(st, key, fallback) == IF key \in DOMAIN st THEN st[key] ELSE fallback
SetItem(st, key, text) == (key :> text) @@ st

\* submissions.filter(time => now - time < oneHour)
RecentSubmissions(submissions, time) ==
    SelectSeq(submissions, LAMBDA x : time - x < ONE_HOUR)

\* validateSubmissionFrequency at Date.now() = time, on localStorage st:
\* what it returns and what it leaves in localStorage.
validateSubmissionFrequency(st, time) ==
    LET submissions == JSONParse(GetItem(st, "form_submissions", <<>>))
        recentSubmissions == RecentSubmissions(submissions, time)
    IN  IF Len(recentSubmissions) >= MAX_PER_HOUR
        THEN [result |-> FALSE, storage |-> st]
        ELSE [result |-> TRUE,
              storage |-> SetItem(st, "form_submissions",
                                  JSONStringify(Append(recentSubmissions, time)))]

\* A rate check that skips the 30 s interval test.
checkRateLimitHourly(st, time) ==
    validateSubmissionFrequency(
        SetItem(st, "last_form_submission", toString(time)), time)

\* checkRateLimit at Date.now() = time: the interval test, then the stored
\* time is overwritten, then the same hourly test and push as
\* validateSubmissionFrequency.
checkRateLimit(st, time) ==
    IF /\ "last_form_submission" \in DOMAIN st
       /\ time - parseInt(st["last_form_submission"]) < MIN_INTERVAL
    THEN [result |-> FALSE, storage |-> st]
    ELSE validateSubmissionFrequency(
             SetItem(st, "last_form_submission", toString(time)), time)

NoForm == [submitError |-> "", isSubmitting |-> FALSE, isSubmitted |-> FALSE]

\* Contact.handleSubmit up to its await, at Date.now() = time.  rest is what
\* the checks after the rate limiter find: "honeypot" (also standing for
\* suspicious content), "invalid" fields, or a "valid" form, which is sent.
\* Both rate checks run within the same millisecond.
handleSubmit(st, time, rest) ==
    LET c == checkRateLimit(st, time)
        v == validateSubmissionFrequency(c.storage, time)
    IN  IF ~c.result
        THEN [storage |-> c.storage, limited |-> TRUE,
              form |-> [NoForm EXCEPT !.submitError = WAIT_MESSAGE]]
        ELSE IF ~v.result
        THEN [storage |-> v.storage, limited |-> TRUE,
              form |-> [NoForm EXCEPT !.submitError = TOO_MANY_MESSAGE]]
        ELSE [storage |-> v.storage, limited |-> FALSE,
              form |-> IF rest = "honeypot"
                       THEN [NoForm EXCEPT !.submitError = HONEYPOT_MESSAGE]
                       ELSE IF rest = "invalid" THEN NoForm
                       ELSE [NoForm EXCEPT !.isSubmitting = TRUE]]

----------------------------------------------------------------------------
(* The error boundary: ErrorBoundary (components/ErrorBoundary.js). *)

maxRetries == 3
\* errors.slice(-10): the reports kept in localStorage 'app_errors'.
MAX_APP_ERRORS == 10

\* this.state as the constructor leaves it; error, errorInfo and errorId are
\* set together, errorId being 0 for null.
NoBoundary == [hasError |-> FALSE, errorId |-> 0, retryCount |-> 0]

\* The page as the error boundary's handlers see it.  env: NODE_ENV;
\* mounted: the boundary is mounted; reloads: calls of window.location.reload;
\* atHome: location.href was set to '/'; alerts: calls of alert; appErrors:
\* the length of localStorage 'app_errors'; handlerErrors: exceptions that
\* left an event handler; caught: errors the boundary has caught.
NoPage(env) ==
    [env |-> env, mounted |-> TRUE, reloads |-> 0, atHome |-> FALSE,
     alerts |-> 0, appErrors |-> 0, handlerErrors |-> 0, caught |-> 0]

\* getDerivedStateFromError, then componentDidCatch: b and pg after them.
componentDidCatch(b, pg) ==
    [boundary |-> [b EXCEPT !.hasError = TRUE, !.errorId = pg.caught + 1],
     page |-> [pg EXCEPT !.caught = @ + 1,
                         !.appErrors = IF pg.env = "development"
                                       THEN IF @ < MAX_APP_ERRORS THEN @ + 1 ELSE @
                                       ELSE @]]

\* window.location.reload(): the page is loaded again and a new boundary is
\* constructed.
handleReload(b, pg) ==
    [boundary |-> NoBoundary, page |-> [pg EXCEPT !.reloads = @ + 1]]

\* handleRetry, called with this = self.  With this undefined, reading
\* this.state is a TypeError that leaves the handler.
handleRetry(self, b, pg) ==
    IF self = "undefined"
    THEN [boundary |-> b, page |-> [pg EXCEPT !.handlerErrors = @ + 1]]
    ELSE IF b.retryCount < maxRetries
    THEN [boundary |-> [NoBoundary EXCEPT !.retryCount = b.retryCount + 1],
          page |-> pg]
    ELSE handleReload(b, pg)

\* window.location.href = '/': the page at '/' is loaded, with a new boundary.
handleGoHome(b, pg) ==
    [boundary |-> NoBoundary, page |-> [pg EXCEPT !.atHome = TRUE]]

\* handleReportError, called with this = self: it reads this.state first.
handleReportError(self, b, pg) ==
    IF self = "undefined"
    THEN [boundary |-> b, page |-> [pg EXCEPT !.handlerErrors = @ + 1]]
    ELSE [boundary |-> b, page |-> [pg EXCEPT !.alerts = @ + 1]]

\* What React passes as this to a class method given as onClick={this.m}
\* when the constructor binds nothing.
OnClickThis == "undefined"

\* render: the label of the first button of the error screen.
RetryButton(b) ==
    IF b.retryCount < maxRetries THEN "Try Again" ELSE "Reload Page"

\* The onClick of that button.
OnRetryButton(b, pg) ==
    IF RetryButton(b) = "Try Again" THEN handleRetry(OnClickThis, b, pg)
    ELSE handleReload(b, pg)

\* componentWillUnmount
componentWillUnmount(b, pg) ==
    [boundary |-> b,
     page |-> [pg EXCEPT !.mounted = FALSE,
                         !.appErrors = IF pg.env = "development" THEN 0 ELSE @]]

----------------------------------------------------------------------------
(* The API service: the apiService singleton of utils/api.js. *)

API_TIMEOUT == 30000

\* this.abortController is a controller id, 0 for null; requests are the
\* calls of request() in call order, each with its controller, the time of
\* the call, and its state: "pending", "done" (a response came), "failed"
\* (fetch rejected for the network) or "aborted", then with by: the request
\* whose timer aborted it, 0 for an abort by a later request() or by
\* abortRequest(), and at: the time of the abort.  timers: the timeouts set
\* and neither cleared nor fired.
NoApi == [abortController |-> 0, requests |-> <<>>, timers |-> {}]

\* controller.abort(): the pending fetch with that signal rejects with an
\* AbortError; the catch block of its request() throws and clears no timer.
Abort(a, controller, by, time) ==
    [a EXCEPT !.requests =
        [i \in DOMAIN @ |->
            IF @[i].controller = controller /\ @[i].state = "pending"
            THEN [@[i] EXCEPT !.state = "aborted", !.by = by, !.at = time]
            ELSE @[i]]]

\* ApiService.request up to its await, at time.
request(a, time) ==
    LET a1 == IF a.abortController # 0
              THEN Abort(a, a.abortController, 0, time) ELSE a
        id == Len(a.requests) + 1
    IN  [a1 EXCEPT !.abortController = id,
                   !.requests = Append(@, [controller |-> id, start |-> time,
                                           state |-> "pending", by |-> 0,
                                           at |-> 0]),
                   !.timers = @ \cup {[owner |-> id, due |-> time + API_TIMEOUT]}]

\* request after its await, the fetch of request r resolved:
\* clearTimeout(timeoutId), then handleResponse.
requestResolved(a, r) ==
    [a EXCEPT !.requests[r].state = "done",
              !.timers = {tm \in @ : tm.owner # r}]

\* request after its await, the fetch of request r rejected with a network
\* error: the catch block throws.
requestRejected(a, r) == [a EXCEPT !.requests[r].state = "failed"]

\* The timeout callback of request r: this.abortController.abort(), on the
\* controller the field holds when the timer fires.
requestTimeout(a, tm, time) ==
    [Abort(a, a.abortController, tm.owner, time) EXCEPT !.timers = @ \ {tm}]

\* abortRequest / cleanup
abortRequest(a, time) ==
    IF a.abortController # 0 THEN Abort(a, a.abortController, 0, time) ELSE a

----------------------------------------------------------------------------
(* Specifications. *)

\* The hosts followed: every hook, no hook, and every hook with a
\* PerformanceObserver that rejects the navigation entry type.
HostChoices ==
    {[caps |-> Hooks, unsupported |-> {}, isLowEndDevice |-> FALSE],
     [caps |-> {}, unsupported |-> {}, isLowEndDevice |-> TRUE],
     [caps |-> Hooks, unsupported |-> {"navigation"}, isLowEndDevice |-> FALSE]}

\* The fields and the host before the module body runs.
Unloaded ==
    /\ phase = "load"
    /\ metrics = EmptyStore
    /\ observers = <<>>
    /\ isInitialized = FALSE
    /\ cleanupFunctions = <<>>
    /\ memoryCheckInterval = 0
    /\ intersectionObserver = 0
    /\ live = <<>>
    /\ activeIntervals = {}
    /\ listeners = {}
    /\ performWorkPatched = FALSE
    /\ batteryPending = 0
    /\ pendingAsync = {}
    /\ inFlight = 0
    /\ staleTimers = 0
    /\ nextId = 1
    /\ now = 0
    /\ written = NoWrites
    /\ clsSeen = 0
    /\ snap = NoSnap
    /\ snapAtReturn = EmptyStore
    /\ score = NoScore
    /\ lifecycle = "Uninitialized"
    /\ recentDestroys = <<>>

\* The rest of the site before anything happened on it.
SiteIdle ==
    /\ wallClock = 0
    /\ storage = <<>>
    /\ form = NoForm
    /\ attempts = <<>>
    /\ boundary = NoBoundary
    /\ page \in {NoPage("production"), NoPage("development")}
    /\ api = NoApi

Init ==
    /\ variant \in {"desktop", "mobile"}
    /\ \E h \in HostChoices :
          /\ caps = h.caps
          /\ unsupported = h.unsupported
          /\ isLowEndDevice = h.isLowEndDevice
    /\ Unloaded
    /\ SiteIdle
    /\ page.env = "production"

Next ==
    \/ ModuleLoad
    \/ DOMContentLoaded
    \/ CallInit
    \/ CallDestroy
    \/ BeforeUnload
    \/ PageHide
    \/ LargestContentfulPaint
    \/ FirstInput
    \/ LayoutShift
    \/ Navigation
    \/ Paint
    \/ ResourceLoad
    \/ MemoryTick
    \/ NetworkChange
    \/ BatteryResolved
    \/ BatteryChange
    \/ PerformWork
    \/ CallRecord
    \/ CallMeasure
    \/ MeasureAsyncStart
    \/ MeasureAsyncSettle
    \/ FetchResolve
    \/ FetchReject
    \/ TimeoutFires

Spec == Init /\ [][Next]_vars

\* The collector with a caller that keeps the object getMetrics() returned.
NextSnapshot ==
    \/ ModuleLoad
    \/ DOMContentLoaded
    \/ CallDestroy
    \/ LargestContentfulPaint
    \/ ResourceLoad
    \/ BatteryResolved
    \/ BatteryChange
    \/ CallRecord
    \/ CallMeasure
    \/ CallGetMetrics
    \/ CallerMutates
    \/ FetchResolve

SpecSnapshot == Init /\ [][NextSnapshot]_vars


\* Long runs of record calls: the n-th call of a behaviour records the value
\* n, as resource entries first (desktop) and then under one scalar key.
StoreStep(s) ==
    /\ s.now <= MaxStoreCalls
    /\ Install(Tock(s))
    /\ lifecycle' = lifecycle
    /\ recentDestroys' = <<>>
    /\ UNCHANGED <<hostVars, siteVars, phase>>

StoreRecord ==
    /\ Loaded
    /\ StoreStep(Record(Cur, "LCP", Num(now + 1)))

StoreResource ==
    /\ Observing(Cur, "resource") # {}
    /\ metrics["LCP"] = Undefined
    /\ StoreStep(Notify(Cur, Observing(Cur, "resource"), "resource",
                        [initiatorType |-> "img", duration |-> Num(now + 1)]))

NextStore ==
    \/ ModuleLoad
    \/ DOMContentLoaded
    \/ StoreRecord
    \/ StoreResource

SpecStore == Init /\ [][NextStore]_vars

\* The mobile collector and its scorer on a host with every hook: each
\* vital is delivered at most once, LCP before FID before CLS, and the
\* score is asked for at any point.
InitScorer ==
    /\ variant = "mobile"
    /\ caps = Hooks
    /\ unsupported = {}
    /\ isLowEndDevice \in BOOLEAN
    /\ Unloaded
    /\ SiteIdle
    /\ page.env = "production"

NoVitalFrom(ks) == \A k \in ks : metrics[k] = Undefined

\* The connected observers of the type are notified, whatever the clock.
ScorerNotify(type, payload, shift) ==
    /\ Observing(Cur, type) # {}
    /\ StoreStep([Notify(Cur, Observing(Cur, type), type, payload)
                  EXCEPT !.clsSeen = @ + shift])

ScorerLCP ==
    /\ NoVitalFrom({"lcp", "fid", "cls"})
    /\ \E v \in ScoredLcp : ScorerNotify("largest-contentful-paint", v, 0)

ScorerFID ==
    /\ NoVitalFrom({"fid", "cls"})
    /\ \E d \in ScoredFid : ScorerNotify("first-input", d, 0)

ScorerCLS ==
    /\ NoVitalFrom({"cls"})
    /\ \E x \in ScoredShifts :
          ScorerNotify("layout-shift", <<[value |-> x, hadRecentInput |-> FALSE]>>, x)

\* The polling interval fires, until a tick has stored a memory object.
ScorerMemoryTick ==
    /\ metrics["memory"] = Undefined
    /\ \E id \in activeIntervals, usage \in MemoryUsages :
          StoreStep(OnMemoryTick(Cur, usage))

NextScorer ==
    \/ ModuleLoad
    \/ ScorerMemoryTick
    \/ ScorerLCP
    \/ ScorerFID
    \/ ScorerCLS
    \/ CallGetPerformanceScore

SpecScorer == InitScorer /\ [][NextScorer]_vars

\* The collector on a host where stopping a source can fail: destroy() is
\* called while disconnect() of some observers and some cleanup closures throw.
CallDestroyFailing ==
    \E failing \in SUBSET StoppedBy(Cur) :
        /\ Loaded
        /\ DestroyStep("app", destroyOn(Cur, failing))
        /\ UNCHANGED phase

NextTeardown ==
    \/ ModuleLoad
    \/ DOMContentLoaded
    \/ BatteryResolved
    \/ LargestContentfulPaint
    \/ CallDestroyFailing

SpecTeardown == Init /\ [][NextTeardown]_vars

----------------------------------------------------------------------------
(* The rest of the site, each part with a collector that is not loaded. *)

\* A production build of the site.
InitProduction ==
    /\ variant = "desktop"
    /\ caps = {}
    /\ unsupported = {}
    /\ isLowEndDevice = FALSE
    /\ Unloaded
    /\ SiteIdle
    /\ page.env = "production"

InitSite ==
    /\ variant = "desktop"
    /\ caps = {}
    /\ unsupported = {}
    /\ isLowEndDevice = FALSE
    /\ Unloaded
    /\ SiteIdle

\* How long after the submit before it a submit comes, ms.
SubmitDelays == {0, 29999, 30000, 3540000}
\* What the checks after the rate limiter find.
SubmitChecks == {"honeypot", "valid"}

\* The form is submitted; the button is disabled while a message is being
\* sent and the form is not shown while the success message is.
Submit ==
    \E d \in SubmitDelays, rest \in SubmitChecks :
        /\ ~form.isSubmitting
        /\ ~form.isSubmitted
        /\ Len(attempts) < MaxAttempts
        /\ LET h == handleSubmit(storage, wallClock + d, rest)
           IN  /\ wallClock' = wallClock + d
               /\ storage' = h.storage
               /\ form' = h.form
               /\ attempts' = Append(attempts, [time |-> wallClock + d,
                                                passed |-> ~h.limited])
        /\ UNCHANGED <<collectorVars, boundary, page, api>>

\* submitContactForm settles: handleSubmit after its await.
SubmitSettles ==
    \E ok \in BOOLEAN :
        /\ form.isSubmitting
        /\ form' = IF ok THEN [NoForm EXCEPT !.isSubmitted = TRUE]
                   ELSE [NoForm EXCEPT !.submitError = FAILED_MESSAGE]
        /\ UNCHANGED <<collectorVars, wallClock, storage, attempts, boundary,
                       page, api>>

\* The 5 s timer set after a success: setIsSubmitted(false).
FormReset ==
    /\ form.isSubmitted
    /\ form' = NoForm
    /\ UNCHANGED <<collectorVars, wallClock, storage, attempts, boundary,
                   page, api>>

NextContact ==
    \/ Submit
    \/ SubmitSettles
    \/ FormReset

SpecContact == InitProduction /\ [][NextContact]_vars

\* A boundary handler ran and left r.
BoundaryStep(r) ==
    /\ r.page.caught <= MaxCaught
    /\ r.page.handlerErrors <= MaxHandlerErrors
    /\ boundary' = r.boundary
    /\ page' = r.page
    /\ UNCHANGED <<collectorVars, wallClock, storage, form, attempts, api>>

\* A child throws while rendering.
ChildThrows ==
    /\ page.mounted
    /\ ~boundary.hasError
    /\ BoundaryStep(componentDidCatch(boundary, page))

\* The error screen is shown and its first button is clicked.
ClickRetryButton ==
    /\ page.mounted
    /\ boundary.hasError
    /\ BoundaryStep(OnRetryButton(boundary, page))

ClickGoHome ==
    /\ page.mounted
    /\ boundary.hasError
    /\ BoundaryStep(handleGoHome(boundary, page))

ClickReportError ==
    /\ page.mounted
    /\ boundary.hasError
    /\ BoundaryStep(handleReportError(OnClickThis, boundary, page))

Unmount ==
    /\ page.mounted
    /\ BoundaryStep(componentWillUnmount(boundary, page))

\* The boundary is constructed and mounted again.
Mount ==
    /\ ~page.mounted
    /\ BoundaryStep([boundary |-> NoBoundary,
                     page |-> [page EXCEPT !.mounted = TRUE]])

NextBoundary ==
    \/ ChildThrows
    \/ ClickRetryButton
    \/ ClickGoHome
    \/ ClickReportError
    \/ Unmount
    \/ Mount

SpecBoundary == InitSite /\ [][NextBoundary]_vars

\* How far the clock moves between two events of the API service, ms.
ApiDelays == {10000}

ApiStep(a) ==
    /\ api' = a
    /\ UNCHANGED <<collectorVars, wallClock, storage, form, attempts, boundary,
                   page>>

\* Some caller calls a method of apiService that calls request().
ApiRequest ==
    /\ Len(api.requests) < MaxRequests
    /\ ApiStep(request(api, wallClock))

ApiFetchResolve ==
    \E r \in DOMAIN api.requests :
        /\ api.requests[r].state = "pending"
        /\ ApiStep(requestResolved(api, r))

ApiFetchReject ==
    \E r \in DOMAIN api.requests :
        /\ api.requests[r].state = "pending"
        /\ ApiStep(requestRejected(api, r))

\* A timeout that is due fires.
ApiTimeout ==
    \E tm \in api.timers :
        /\ tm.due <= wallClock
        /\ ApiStep(requestTimeout(api, tm, wallClock))

ApiAbortRequest ==
    /\ \E r \in DOMAIN api.requests : api.requests[r].state = "pending"
    /\ ApiStep(abortRequest(api, wallClock))

\* Time passes, up to the next timeout that is due.
ApiTick ==
    \E d \in ApiDelays :
        /\ wallClock + d <= MaxApiClock
        /\ \A tm \in api.timers : wallClock + d <= tm.due
        /\ wallClock' = wallClock + d
        /\ UNCHANGED <<collectorVars, storage, form, attempts, boundary, page,
                       api>>

NextApi ==
    \/ ApiRequest
    \/ ApiFetchResolve
    \/ ApiFetchReject
    \/ ApiTimeout
    \/ ApiAbortRequest
    \/ ApiTick

SpecApi == InitProduction /\ [][NextApi]_vars

----------------------------------------------------------------------------
(* Claims. *)

\* The bound of the series at key: 50 for the resource entries, 100 for what
\* reportMetric keeps, 50 for what logMetric keeps.
BoundOf(key) ==
    IF key = "resources" THEN MAX_RESOURCES
    ELSE IF variant = "desktop" THEN MAX_SAMPLES
    ELSE MOBILE_MAX_SAMPLES

JustDestroyed == recentDestroys # <<>>

\* C2: after destroy() returns, every observer the instance created is
\* disconnected, every polling interval it set is cleared, every listener it
\* attached is removed and the store is empty.
C2_DestroyReleasesEverything ==
    JustDestroyed =>
        /\ DOMAIN live = {}
        /\ activeIntervals = {}
        /\ listeners = {}
        /\ metrics = EmptyStore

\* C3: after the beforeunload or the pagehide listener ran on a collector,
\* no observer is connected, no polling interval is active and the store is
\* empty.
C3_ExitHooksCleanUp ==
    (JustDestroyed
       /\ recentDestroys[Len(recentDestroys)] \in {"beforeunload", "pagehide"}) =>
        /\ DOMAIN live = {}
        /\ activeIntervals = {}
        /\ metrics = EmptyStore

\* C4: once destroy() has been called, no later step (no init() in
\* particular) connects an observer, sets an interval or marks the instance
\* initialized.
C4_DestroyedIsTerminal ==
    [][lifecycle = "Destroyed" =>
          /\ DOMAIN live' \subseteq DOMAIN live
          /\ activeIntervals' \subseteq activeIntervals
          /\ ~isInitialized']_vars

\* C5: init() on a Running collector creates no observer, listener or
\* interval, asks for no battery, and leaves the store as it is.
C5_InitIdempotent ==
    [][(lifecycle = "Running" /\ CallInit) =>
          /\ live' = live
          /\ observers' = observers
          /\ activeIntervals' = activeIntervals
          /\ listeners' = listeners
          /\ batteryPending' = batteryPending
          /\ metrics' = metrics]_vars

\* C6: after destroy(), a call of reportMetric / logMetric, a call of measure
\* and the completion of a measureAsync leave the store empty and start no
\* delivery.
C6_RecordAfterDestroyIsNoOp ==
    [][(lifecycle = "Destroyed" /\ metrics = EmptyStore
          /\ (CallRecord \/ CallMeasure \/ MeasureAsyncSettle)) =>
          /\ metrics' = EmptyStore
          /\ inFlight' <= inFlight]_vars

\* What a caller or the host can see of a collector.
Observable(s) ==
    <<s.metrics, s.observers, s.cleanupFunctions, s.memoryCheckInterval,
      s.isInitialized, s.live, s.activeIntervals, s.listeners,
      s.performWorkPatched>>

\* C7: from any reachable state, destroy() called twice raises nothing and
\* leaves what destroy() called once leaves: an empty store, no observer and
\* no interval handle held, the instance not initialized.
C7_DestroyIdempotent ==
    LET once == destroy(Cur)
        twice == destroy(once)
    IN  /\ Observable(twice) = Observable(once)
        /\ ~once.threw /\ ~twice.threw
        /\ once.metrics = EmptyStore
        /\ once.observers = <<>>
        /\ once.memoryCheckInterval = 0
        /\ ~once.isInitialized

\* C7's case: destroy() ran twice in a row; and it ran on a collector that
\* was never initialized.
C7_Witness ==
    /\ Len(recentDestroys) = 2
    /\ Observable(Cur) = Observable(destroy(Cur))

\* C8: whatever is recorded after getMetrics() returned, the caller reads in
\* the returned object what it held when it was returned.
C8_SnapshotImmutable ==
    snap.taken => SnapView(snap, metrics) = snapAtReturn

\* C9: a sample whose value is NaN, an infinity or undefined is dropped: no
\* series ever holds one.
C9_MalformedSamplesDropped ==
    \A k \in Keys :
        metrics[k].t = "arr" =>
            \A i \in DOMAIN metrics[k].s :
                metrics[k].s[i].value.t \notin {"nan", "inf", "undef"}

\* C10: the stored cumulative layout shift is the sum of the values of the
\* delivered entries that were not flagged hadRecentInput.
C10_ClsExcludesFlagged ==
    metrics["cls"].t = "num" => metrics["cls"].n = clsSeen

\* The vitals that have a recorded value in the store.
Recorded == {k \in {"lcp", "fid", "cls"} : metrics[k] # Undefined}

\* C11: the overall score is the mean (rounded as the scorer rounds) of the
\* scores of the recorded vitals only; with only LCP = 7000 recorded the LCP
\* score is 25, the overall score is 25 and the LCP hint is given.
C11_MeanOverRecordedVitals ==
    LET out == getPerformanceScore(Cur).score
        sum == (IF "lcp" \in Recorded THEN out.lcp ELSE 0)
               + (IF "fid" \in Recorded THEN out.fid ELSE 0)
               + (IF "cls" \in Recorded THEN out.cls ELSE 0)
    IN  /\ Recorded # {} => out.overall = RoundDiv(sum, Cardinality(Recorded))
        /\ (metrics["lcp"] = Num(7000) /\ Recorded = {"lcp"}) =>
              /\ out.lcp = 25
              /\ out.overall = 25
              /\ \E i \in DOMAIN out.recommendations :
                    out.recommendations[i] = LCP_HINT

\* The score the breakpoints a <= b <= c give to the number n.
Breakpoints(n, a, b, c) ==
    IF n <= a THEN 100 ELSE IF n <= b THEN 75 ELSE IF n <= c THEN 50 ELSE 25

\* The state with the number n recorded as the vital key.
WithVital(key, n) == [Cur EXCEPT !.metrics[key] = Num(n)]

\* C12: a vital recorded as a number scores by its breakpoints (LCP 2500,
\* 4000, 6000 ms; FID 100, 300, 500 ms; CLS 0.1, 0.25, 0.5, in hundredths
\* here); a returned score is 25, 50, 75 or 100; and a larger value never
\* scores higher.  (NaN, which the scorer reads as 0, is not ordered.)
C12_ScoreBreakpoints ==
    /\ metrics["lcp"].t = "num" =>
          getLCPScore(Cur) = Breakpoints(metrics["lcp"].n, 2500, 4000, 6000)
    /\ metrics["fid"].t = "num" =>
          getFIDScore(Cur) = Breakpoints(metrics["fid"].n, 100, 300, 500)
    /\ metrics["cls"].t = "num" =>
          getCLSScore(Cur) = Breakpoints(metrics["cls"].n, 10, 25, 50)
    /\ score.taken =>
          {score.lcp, score.fid, score.cls} \subseteq {25, 50, 75, 100}
    /\ \A a, b \in ScoredLcp :
          a.n <= b.n =>
              getLCPScore(WithVital("lcp", b.n)) <= getLCPScore(WithVital("lcp", a.n))
    /\ \A a, b \in ScoredFid \ {NaN} :
          a.n <= b.n =>
              getFIDScore(WithVital("fid", b.n)) <= getFIDScore(WithVital("fid", a.n))
    /\ \A a, b \in ScoredShifts :
          a <= b =>
              getCLSScore(WithVital("cls", b)) <= getCLSScore(WithVital("cls", a))

\* C12's case: the score was returned for an LCP on a breakpoint, an FID
\* just past one and a CLS past the last.
C12_Witness ==
    /\ score.taken
    /\ metrics["lcp"] = Num(4000) /\ score.lcp = 75
    /\ metrics["fid"] = Num(301) /\ score.fid = 50
    /\ metrics["cls"] = Num(51) /\ score.cls = 25

\* The entries of a list.
Range(q) == {q[i] : i \in DOMAIN q}

\* C13: the returned list holds a vital's hint exactly when that vital's
\* score is below 75, the device hint exactly when isLowEndDevice, each once
\* and nothing else.
C13_Recommendations ==
    score.taken =>
        LET recs == score.recommendations
            due == (IF score.lcp < 75 THEN {LCP_HINT} ELSE {})
                   \cup (IF score.fid < 75 THEN {FID_HINT} ELSE {})
                   \cup (IF score.cls < 75 THEN {CLS_HINT} ELSE {})
                   \cup (IF isLowEndDevice THEN {DEVICE_HINT} ELSE {})
        IN  /\ Range(recs) = due
            /\ Len(recs) = Cardinality(due)

\* C13's case: a returned list with the hint of a vital that scored 50,
\* without the hint of one that scored 75, on a low-end device.
C13_Witness ==
    /\ score.taken
    /\ score.lcp = 75 /\ score.fid = 50
    /\ isLowEndDevice
    /\ Range(score.recommendations) = {FID_HINT, DEVICE_HINT}

\* C14: from any state, getPerformanceScore() called twice returns the same
\* output both times, and a call changes nothing but what the caller holds:
\* not the store, not a subscription, not a delivery.
C14_ScorerPure ==
    /\ [](LET once == getPerformanceScore(Cur)
              twice == getPerformanceScore(once)
          IN  /\ twice.score = once.score
              /\ [once EXCEPT !.score = score] = Cur)
    /\ [][CallGetPerformanceScore =>
            UNCHANGED <<metrics, isLowEndDevice, observers, live, listeners,
                        activeIntervals, cleanupFunctions, inFlight,
                        written>>]_vars

\* C14's case: the score was returned on a store that holds vitals, and the
\* store is as it was.
C14_Witness ==
    /\ score.taken
    /\ Recorded = {"lcp", "fid", "cls"}
    /\ score = getPerformanceScore(Cur).score

\* The samples of the series at key, none when there is no series.
Series(key) == IF metrics[key].t = "arr" THEN metrics[key].s ELSE <<>>

\* C15: on a Running collector, measure(name, fn), and measureAsync(name, fn)
\* when fn's promise resolves, append one sample to the series at name, its
\* value the measured duration.
C15_MeasureRecordsTiming ==
    [][\A name \in PublicNames, d \in Durations, r \in FnResults :
          (/\ lifecycle = "Running"
           /\ variant = "desktop"
           /\ \/ Step(measure(Cur, name, d, r), lifecycle)
              \/ name \in pendingAsync /\ Step(measureAsync(Cur, name, d, r), lifecycle))
          => metrics'[name] = Arr(Append(Series(name), Sample(Num(d), now)))]_vars

\* C16: measure and measureAsync hand back what fn returned, whatever
\* happens to the sample: also when the push fails on the number stored at
\* name.
C16_MeasureTransparent ==
    variant = "desktop" =>
        \A name \in PublicNames, d \in Durations, r \in FnResults :
            LET m == measure(Cur, name, d, r)
                a == measureAsync(Cur, name, d, r)
            IN  /\ m.result = r /\ ~m.threw
                /\ a.result = r /\ ~a.threw

\* C16's case: measure ran and left its duration where the series should
\* be, so that recording the next timing fails; the result still comes back.
C16_Witness ==
    /\ variant = "desktop"
    /\ metrics["task"] = Num(5)
    /\ measure(Cur, "task", 5, "a").metrics["task"].t # "arr"
    /\ measure(Cur, "task", 5, "a").result = "a"

\* C17: reportMetric returns normally; however a delivery ends (any status,
\* a network error, the abort of the 5 s timer), the promise of
\* sendToAnalytics is not rejected and the store is what it would be had the
\* POST succeeded: what it was.
C17_ReportingFailureContained ==
    /\ [](variant = "desktop" =>
            /\ \A name \in PublicNames, v \in PublicValues :
                  ~reportMetric(Cur, name, v).threw
            /\ inFlight > 0 =>
                  \A e \in {"TypeError", "AbortError"}, status \in Statuses :
                      LET failed == sendToAnalyticsRejected(Cur, e)
                          done == sendToAnalyticsResolved(Cur, status)
                      IN  /\ ~failed.rejected /\ ~failed.threw
                          /\ ~done.rejected /\ ~done.threw
                          /\ failed.metrics = metrics
                          /\ done.metrics = metrics)
    /\ [][(FetchResolve \/ FetchReject \/ TimeoutFires) =>
            metrics' = metrics /\ written' = written]_vars

\* C17's case: a delivery failed and the sample it carried is in the store.
C17_Witness ==
    /\ staleTimers > 0
    /\ \E k \in Keys : metrics[k].t = "arr" /\ Len(metrics[k].s) > 0

\* C18: a reportMetric call starts one POST at most; a delivery that fails
\* or times out is over (it is not sent again, nothing is in flight for it)
\* and has logged its failure once at most.
C18_DeliveryAtMostOnce ==
    variant = "desktop" =>
        /\ \A name \in PublicNames, v \in PublicValues :
              reportMetric(Cur, name, v).inFlight <= inFlight + 1
        /\ inFlight > 0 =>
              \A e \in {"TypeError", "AbortError"} :
                  LET failed == sendToAnalyticsRejected(Cur, e)
                  IN  /\ failed.inFlight = inFlight - 1
                      /\ failed.logged <= 1

\* C18's case: a delivery has failed and none is in flight.
C18_Witness ==
    /\ variant = "desktop"
    /\ staleTimers > 0
    /\ inFlight = 0

\* C19: on a host without any hook, init() raises nothing and starts
\* nothing, getMetrics() on the fresh collector returns an empty store, and
\* destroy() raises nothing; no source is ever connected on such a host.
C19_NoHooksNoFailure ==
    caps = {} =>
        LET i == init(Cur)
            g == getMetrics(i)
            d == destroy(i)
        IN  /\ ~i.threw /\ ~g.threw /\ ~d.threw
            /\ i.metrics = metrics
            /\ i.observers = observers
            /\ i.activeIntervals = {} /\ i.listeners = {} /\ DOMAIN i.live = {}
            /\ i.batteryPending = 0 /\ i.intersectionObserver = 0
            /\ metrics = EmptyStore => SnapView(g.snap, g.metrics) = EmptyStore
            /\ d.metrics = EmptyStore

\* C19's case: on a host without hooks the collector was initialized, its
\* getMetrics() returned an empty store, and destroy() then ran.
C19_Witness ==
    /\ caps = {}
    /\ snap.taken
    /\ snapAtReturn = EmptyStore
    /\ lifecycle = "Destroyed"
    /\ recentDestroys # <<>>

\* The entry types init() subscribes to.
ObservedTypes ==
    IF variant = "desktop"
    THEN {"largest-contentful-paint", "first-input", "layout-shift",
          "navigation", "paint", "resource"}
    ELSE {"largest-contentful-paint", "first-input", "layout-shift"}

\* C20: while the collector is Running, every source whose hook the host
\* has and whose own subscription does not fail is started, whichever other
\* source is missing or failed.
C20_SourcesIndependent ==
    lifecycle = "Running" =>
        /\ "PerformanceObserver" \in caps =>
              \A type \in ObservedTypes \ unsupported : Observing(Cur, type) # {}
        /\ "memory" \in caps => activeIntervals # {}
        /\ (variant = "mobile" /\ "connection" \in caps) =>
              ListenersOn("connection") # {}
        /\ (variant = "mobile" /\ "getBattery" \in caps) =>
              batteryPending > 0 \/ ListenersOn("battery") # {}
        /\ (variant = "mobile" /\ "IntersectionObserver" \in caps) =>
              intersectionObserver # 0

\* C21: in both variants a series other than the resource entries keeps up to
\* 100 samples: it holds the last 100 samples written to it, in call order, so
\* after 150 writes its length is 100 and it holds the 51st to the 150th.
C21_ScalarSeriesKeep100 ==
    \A k \in Keys \ {"resources"} :
        metrics[k].t = "arr" =>
            /\ metrics[k].s = LastN(written[k], MAX_SAMPLES)
            /\ Len(written[k]) = 150 =>
                  /\ Len(metrics[k].s) = 100
                  /\ \A i \in 1..100 : metrics[k].s[i] = written[k][50 + i]

\* C22: a polling tick at a ratio of 0.7 or less records nothing, and while
\* the ratio last polled and stored is above 0.9 the recommendations
\* getPerformanceScore() returns hold an entry for it, that is, one that is
\* not a hint about LCP, FID, CLS or the device.
C22_HighMemoryFlagged ==
    /\ \A u \in MemoryUsages :
          u <= 70 => /\ OnMemoryTick(Cur, u).metrics = metrics
                     /\ OnMemoryTick(Cur, u).written = written
    /\ (metrics["memory"].t = "obj" /\ metrics["memory"].n > 90) =>
          \E r \in Range(getPerformanceScore(Cur).score.recommendations) :
              r \notin {LCP_HINT, FID_HINT, CLS_HINT, DEVICE_HINT}

\* C23: of the submits so far, two that got past the rate limiter are at
\* least 30 s apart, and at most 5 of them lie in any one hour starting at a
\* submit.
C23_RateLimited ==
    /\ \A i, j \in DOMAIN attempts :
          (i < j /\ attempts[i].passed /\ attempts[j].passed) =>
              attempts[j].time - attempts[i].time >= MIN_INTERVAL
    /\ \A i \in DOMAIN attempts :
          Cardinality({j \in DOMAIN attempts :
                          /\ attempts[j].passed
                          /\ attempts[j].time >= attempts[i].time
                          /\ attempts[j].time - attempts[i].time < ONE_HOUR})
              <= MAX_PER_HOUR

\* C23's case: two submits exactly 30 s apart passed, one 29.999 s after a
\* submit was turned away for the interval, and a later one in the same hour
\* was turned away for the hourly limit.
C23_Witness ==
    \E i, j, k, l \in DOMAIN attempts :
        /\ i < j /\ attempts[i].passed /\ attempts[j].passed
        /\ attempts[j].time - attempts[i].time = MIN_INTERVAL
        /\ ~attempts[k].passed /\ k > 1
        /\ attempts[k].time - attempts[k - 1].time = MIN_INTERVAL - 1
        /\ ~attempts[l].passed /\ l = Len(attempts)
        /\ attempts[l].time - attempts[l - 1].time >= MIN_INTERVAL
        /\ attempts[l].time - attempts[i].time < ONE_HOUR
        /\ form.submitError = TOO_MANY_MESSAGE

\* C30: a submit the rate limiter turns away leaves localStorage as it was,
\* and a submit it lets through adds one entry, its own time, to the stored
\* list of the last hour's submissions.
C30_RejectedSubmitLeavesState ==
    [][Submit =>
         LET a == attempts'[Len(attempts')]
             old == JSONParse(GetItem(storage, "form_submissions", <<>>))
             new == JSONParse(GetItem(storage', "form_submissions", <<>>))
         IN  IF a.passed
             THEN new = Append(RecentSubmissions(old, a.time), a.time)
             ELSE storage' = storage]_vars

\* C24: retryCount never exceeds maxRetries; a click on the retry button
\* while retryCount is below 3 clears the error state and raises retryCount
\* by one; a click once retryCount is 3 reloads the page.
C24_RetryBounded ==
    /\ [](boundary.retryCount <= maxRetries)
    /\ [][ClickRetryButton =>
            IF boundary.retryCount < maxRetries
            THEN boundary' = [NoBoundary EXCEPT
                                !.retryCount = boundary.retryCount + 1]
            ELSE page'.reloads = page.reloads + 1]_vars

\* C25: a click on 'Try Again' while the error screen is shown calls
\* window.location.reload().
C25_TryAgainReloads ==
    [][(ClickRetryButton /\ RetryButton(boundary) = "Try Again") =>
          page'.reloads = page.reloads + 1]_vars

\* C29: a request that a timeout aborted was aborted by its own timer, no
\* sooner than API_TIMEOUT after it was started; and a request that is no
\* longer pending has no timer left.
C29_TimeoutAbortsOwnRequest ==
    \A r \in DOMAIN api.requests :
        LET q == api.requests[r]
        IN  /\ (q.state = "aborted" /\ q.by # 0) =>
                  /\ q.by = r
                  /\ q.at - q.start >= API_TIMEOUT
            /\ q.state # "pending" => \A tm \in api.timers : tm.owner # r

\* C26: when the getBattery() promise resolves after destroy() has returned,
\* the collector attaches no listener, writes nothing into the store and
\* registers no cleanup function, so no battery listener is attached to a
\* destroyed collector.
C26_NoSubscriptionAfterDestroy ==
    [][(lifecycle = "Destroyed" /\ BatteryResolved) =>
          /\ listeners' \subseteq listeners
          /\ metrics' = metrics
          /\ cleanupFunctions' = cleanupFunctions
          /\ {l \in listeners' : l.target = "battery"} = {}]_vars

\* C27: whichever observers' disconnect() and whichever cleanup closures
\* throw, destroy() returns without raising, having disconnected every other
\* observer, run every other cleanup closure, cleared the polling interval
\* its field held and emptied the store.
C27_DestroySurvivesFailures ==
    \A failing \in SUBSET StoppedBy(Cur) :
        LET d == destroyOn(Cur, failing)
        IN  /\ ~d.threw
            /\ \A j \in DOMAIN observers :
                  observers[j] \notin failing => observers[j] \notin DOMAIN d.live
            /\ \A j \in DOMAIN cleanupFunctions :
                  cleanupFunctions[j].id \notin failing =>
                      IF cleanupFunctions[j].kind = "react"
                      THEN ~d.performWorkPatched
                      ELSE \A l \in d.listeners : l.id # cleanupFunctions[j].id
            /\ memoryCheckInterval \notin d.activeIntervals
            /\ d.memoryCheckInterval = 0
            /\ d.metrics = EmptyStore
            /\ d.observers = <<>> /\ d.cleanupFunctions = <<>>

\* C27's case: destroy() has run on a collector that held several observers
\* and samples; one disconnect() threw, that observer alone is still
\* connected, and the store, the interval and the lists are cleared.
C27_Witness ==
    /\ lifecycle = "Destroyed"
    /\ recentDestroys # <<>>
    /\ Cardinality(DOMAIN live) = 1
    /\ nextId > 3
    /\ observers = <<>>
    /\ metrics = EmptyStore
    /\ activeIntervals = {}

\* C28: the 5 s timers that are pending, those of the deliveries in flight
\* and those left by settled deliveries, are as many as the deliveries in
\* flight: no settled delivery has left its timer pending.
C28_TimerSettlesWithDelivery ==
    LET pendingTimers == inFlight + staleTimers
    IN  pendingTimers = inFlight

====
